---- MODULE Spec2Model ----
(***************************************************************************)
(* Model of src/spice_utils.rs: the helpers around the SPICE engine        *)
(* (naif_ids, mu, state_at_instant, states_at_instant) and write_to_spk,   *)
(* which down-samples a propagated trajectory and writes it to an SPK      *)
(* kernel, one type 9 segment per body other than the observing body.      *)
(*                                                                         *)
(* The engine is external.  What the model keeps of it is its process-wide *)
(* failure flag (failed_c), which stays set once an engine routine has     *)
(* signalled an error under the "return" error action, and the sequence of *)
(* engine routines the current operation has called, with their arguments. *)
(*                                                                         *)
(* f64 values are modelled by integers.  Input state components are drawn  *)
(* from multiples of 1000, for which the division by 1000f64 is exact, and *)
(* fraction_to_save from dyadic rationals num/den, for which 1.0 / f in    *)
(* f32 truncates to the same integer as the exact quotient.                *)
(***************************************************************************)
EXTENDS Integers, Sequences, FiniteSets

VARIABLES
    pc,                   \* position: "idle" between calls, "wts_*" inside write_to_spk,
                          \* "returned" when the operation has returned, "aborted" after a panic
    op,                   \* the operation called last (or running)
    result,               \* what the last operation returned: [tag, val]
    failed,               \* the engine's failure flag, as failed_c() reports it
    calls,                \* engine routines called by the operation, in order
    errored,              \* history: some completed operation returned an engine-sourced error
    errored_at_call,      \* history: value of errored when the last operation was called
    names,                \* naif_ids: the bodies parameter (names)
    bodies,               \* write_to_spk / states_at_instant: the bodies parameter
    states,               \* write_to_spk: the states parameter
    ets,                  \* write_to_spk: the ets parameter
    cb_id,                \* write_to_spk: the cb_id parameter
    fraction_to_save,     \* write_to_spk: the fraction_to_save parameter, [num, den]
    steps_to_skip,        \* write_to_spk local
    ets_kept,             \* write_to_spk local: ets after step_by (shadows ets in the source)
    states_kept,          \* write_to_spk local: states after step_by (shadows states in the source)
    cb_states_matrix_km,  \* write_to_spk local: Option, [some, m]
    idx                   \* write_to_spk local: 0-based index of the loop over bodies

vars == << pc, op, result, failed, calls, errored, errored_at_call, names, bodies,
           states, ets, cb_id, fraction_to_save, steps_to_skip, ets_kept,
           states_kept, cb_states_matrix_km, idx >>

----------------------------------------------------------------------------
(* Bounds of the model. *)

MaxBodies == 3      \* longest bodies list
MaxSamples == 11    \* longest ets / states list
MaxNames == 3       \* longest names list given to naif_ids

(* Input domains. *)

BodyIds == {301, 399}
ObserverIds == BodyIds \cup {10}
BodyNames == {"EARTH", "MOON", "VULCAN", "NIBIRU"}
EpochStarts == {0}
StatePatterns == {-40, 3}

\* fraction_to_save values: -1/2, 0, 1/4, 3/8, 1/2, 3/4, 1, 3/2 and NaN (den = 0)
Fractions ==
    { [num |-> -1, den |-> 2], [num |-> 0, den |-> 1], [num |-> 1, den |-> 4],
      [num |-> 3, den |-> 8],  [num |-> 1, den |-> 2], [num |-> 3, den |-> 4],
      [num |-> 1, den |-> 1],  [num |-> 3, den |-> 2], [num |-> 0, den |-> 0] }

\* usize::MAX, the value `f32::INFINITY as usize` saturates to.  Any stride
\* beyond the longest list behaves the same; the value here is the largest
\* integer TLC holds.
UsizeMax == 2147483647

BodyLists == UNION { [1..n -> BodyIds] : n \in 0..MaxBodies }
NameLists == UNION { [1..n -> BodyNames] : n \in 0..MaxNames }

\* A timeline of n strictly increasing epochs, 60 s apart.
Timeline(n, t0) == [i \in 1..n |-> t0 + 60 * (i - 1)]

\* The flat state buffer of nb bodies at sample t (0-based): 6 components per
\* body, all components of a series distinct, in multiples of 1000.
SampleState(p, t, nb) == [k \in 1..(6 * nb) |-> 1000 * (p + 100 * t + k)]
StateSeries(n, p, nb) == [i \in 1..n |-> SampleState(p, i - 1, nb)]

----------------------------------------------------------------------------
(* Results. *)

Ok(v) == [tag |-> "Ok", val |-> v]
Err(kind, v) == [tag |-> kind, val |-> v]
NoResult == [tag |-> "none", val |-> <<>>]

ErrorTags == {"ErrNotFound", "ErrMu", "ErrState", "ErrFraction", "ErrOpen", "ErrWrite", "ErrClose"}
EngineErrorTags == {"ErrMu", "ErrState", "ErrOpen", "ErrWrite", "ErrClose"}

(* Engine calls. *)

Call(name, args) == [call |-> name, args |-> args]

\* set_error_handling: errprt_c then erract_c
set_error_handling == << Call("errprt_c", <<>>), Call("erract_c", <<>>) >>

\* failed_c() after an engine routine: the flag stays set, and is set when the
\* routine signals an error.
FailedAfter(flag, signals) == flag \/ signals

----------------------------------------------------------------------------
(* naif_ids *)

\* spice::bodn2c against the loaded kernel pool: (id, found)
bodn2c(b) ==
    CASE b = "EARTH" -> << 399, TRUE >>
      [] b = "MOON"  -> << 301, TRUE >>
      [] OTHER       -> << 0, FALSE >>

\* A variant that skips a name the pool does not know and carries on.
naif_ids_arm_skip(r, b, ids) ==
    IF r[2] THEN [brk |-> FALSE, ids |-> Append(ids, r[1]), ret |-> NoResult]
            ELSE [brk |-> FALSE, ids |-> ids, ret |-> NoResult]

\* The match on bodn2c's result: push the id, or return the error.
naif_ids_arm(r, b, ids) ==
    IF r[2] THEN [brk |-> FALSE, ids |-> Append(ids, r[1]), ret |-> NoResult]
            ELSE [brk |-> TRUE, ids |-> ids, ret |-> Err("ErrNotFound", b)]

RECURSIVE naif_ids_loop(_, _, _, _)
naif_ids_loop(bs, i, ids, looked) ==
    IF i > Len(bs)
    THEN [ret |-> Ok(ids), calls |-> looked]
    ELSE LET arm == naif_ids_arm(bodn2c(bs[i]), bs[i], ids)
             looked2 == Append(looked, Call("bodn2c", << bs[i] >>))
         IN  IF arm.brk THEN [ret |-> arm.ret, calls |-> looked2]
                        ELSE naif_ids_loop(bs, i + 1, arm.ids, looked2)

naif_ids(bs) == naif_ids_loop(bs, 1, << >>, << >>)

(* mu, state_at_instant, states_at_instant *)

\* A variant of mu's result that does not look at failed_c.
mu_result_unchecked(flag) == Ok("GM")

\* success = (failed_c() == 0)
mu_result(flag) == IF ~flag THEN Ok("GM") ELSE Err("ErrMu", << >>)

state_at_instant_result(flag) == IF ~flag THEN Ok("pos") ELSE Err("ErrState", << >>)

\* One state_at_instant call: k = TRUE when spkezr signals an error.
state_at_instant(body, flag, signals) ==
    LET f2 == FailedAfter(flag, signals)
    IN  [ret |-> state_at_instant_result(f2),
         failed |-> f2,
         calls |-> set_error_handling
                   \o << Call("spkezr", << body >>), Call("failed_c", << f2 >>) >>]

\* states_at_instant: state_at_instant per body, `?` returns the first error.
\* k is the 1-based index of the body whose spkezr signals (none past Len).
RECURSIVE states_at_instant_loop(_, _, _, _, _)
states_at_instant_loop(bs, i, flag, k, looked) ==
    IF i > Len(bs)
    THEN [ret |-> Ok("state"), failed |-> flag, calls |-> looked]
    ELSE LET r == state_at_instant(bs[i], flag, i = k)
         IN  IF r.ret.tag = "Ok"
             THEN states_at_instant_loop(bs, i + 1, r.failed, k, looked \o r.calls)
             ELSE [ret |-> r.ret, failed |-> r.failed, calls |-> looked \o r.calls]

states_at_instant(bs, flag, k) == states_at_instant_loop(bs, 1, flag, k, << >>)

----------------------------------------------------------------------------
(* write_to_spk: the pure parts *)

\* (0.0..=1.0).contains(&fraction_to_save); false for NaN
FractionAccepted(f) == f.den # 0 /\ 0 <= f.num /\ f.num <= f.den

\* A variant that rounds 1.0 / fraction_to_save up.
StepsToSkip_ceil(f) ==
    IF f.den = 0 \/ f.num < 0 THEN 0
    ELSE IF f.num = 0 THEN UsizeMax
    ELSE (f.den + f.num - 1) \div f.num

\* (1.0 / fraction_to_save) as usize: truncates, saturates (inf -> usize::MAX,
\* negative and NaN -> 0)
StepsToSkip(f) ==
    IF f.den = 0 \/ f.num < 0 THEN 0
    ELSE IF f.num = 0 THEN UsizeMax
    ELSE f.den \div f.num

\* iter().step_by(step): the first element, then every step-th after it
RECURSIVE StepBy(_, _)
StepBy(s, step) ==
    IF s = << >> THEN << >>
    ELSE IF Len(s) <= step THEN << Head(s) >>
    ELSE << Head(s) >> \o StepBy(SubSeq(s, step + 1, Len(s)), step)

\* bodies.iter().position(|&id| id == cb_id): Option of the first 0-based index
Position(bs, id) ==
    IF \E i \in 1..Len(bs) : bs[i] = id
    THEN [some |-> TRUE,
          idx |-> (CHOOSE i \in 1..Len(bs) :
                      bs[i] = id /\ \A j \in 1..(i - 1) : bs[j] # id) - 1]
    ELSE [some |-> FALSE, idx |-> 0]

\* A variant that forgets the block width.
Slice6_unscaled(s, i) == SubSeq(s, i + 1, i + 6)

\* s.slice(s![(idx * 6)..(idx * 6 + 6)]), idx 0-based
Slice6(s, i) == SubSeq(s, i * 6 + 1, i * 6 + 6)

\* states.iter().map(|&s| s.slice(..)).collect()
BodyBlocks(sts, i) == [t \in 1..Len(sts) |-> Slice6(sts[t], i)]

RECURSIVE Flatten(_)
Flatten(blocks) == IF blocks = << >> THEN << >> ELSE Head(blocks) \o Flatten(Tail(blocks))

\* ndarray::concatenate(Axis(0), ..): Err for an empty list of arrays
concatenate(blocks) == [ok |-> blocks # << >>, m |-> Flatten(blocks)]

\* array / 1000f64, on inputs that are multiples of 1000
DivScalar(m, d) == [k \in 1..Len(m) |-> m[k] \div d]

\* a -= b, element-wise
SubAssign(a, b) == [k \in 1..Len(a) |-> a[k] - b[k]]

\* A variant that does not look at failed_c after spkopn_c.
OpenFailed_ignored(flag) == FALSE

\* if failed_c() != 0 after spkopn_c
OpenFailed(flag) == flag

\* A variant that issues a segment for the observing body too.
SkipBody_never(id, cb) == FALSE

\* if id == cb_id { continue; }
SkipBody(id, cb) == id = cb

\* A variant that takes the epoch before the last.
Tfinal_short(e) == e[IF Len(e) > 1 THEN Len(e) - 1 ELSE 1]

\* ets[ets.len() - 1]
Tfinal(e) == e[Len(e)]

\* The arguments of spkw09_c for one body.
spkw09_args(id, cb, e, n, m) ==
    [body |-> id, center |-> cb, first |-> e[1], last |-> Tfinal(e),
     degree |-> 7, n |-> n, states |-> m, epochs |-> e]

----------------------------------------------------------------------------
(* State machine *)

NoFraction == [num |-> 0, den |-> 0]
None == [some |-> FALSE, m |-> << >>]

Init ==
    /\ pc = "idle"
    /\ op = "none"
    /\ result = NoResult
    /\ failed = FALSE
    /\ calls = << >>
    /\ errored = FALSE
    /\ errored_at_call = FALSE
    /\ names = << >>
    /\ bodies = << >>
    /\ states = << >>
    /\ ets = << >>
    /\ cb_id = 0
    /\ fraction_to_save = NoFraction
    /\ steps_to_skip = 0
    /\ ets_kept = << >>
    /\ states_kept = << >>
    /\ cb_states_matrix_km = None
    /\ idx = 0

\* An operation is called: its parameters replace those of the one before.
Enter(o, ns, bs, sts, es, cb, f) ==
    /\ op' = o
    /\ errored_at_call' = errored
    /\ names' = ns
    /\ bodies' = bs
    /\ states' = sts
    /\ ets' = es
    /\ cb_id' = cb
    /\ fraction_to_save' = f
    /\ steps_to_skip' = 0
    /\ ets_kept' = << >>
    /\ states_kept' = << >>
    /\ cb_states_matrix_km' = None
    /\ idx' = 0

\* The operation returns r to its caller.
Return(r) ==
    /\ pc' = "returned"
    /\ result' = r
    /\ errored' = (errored \/ r.tag \in EngineErrorTags)

\* The operation panics: the thread unwinds, nothing after it runs.
Panic(why) ==
    /\ pc' = "aborted"
    /\ result' = [tag |-> "panic", val |-> why]
    /\ errored' = errored

params == << op, errored_at_call, names, bodies, states, ets, cb_id, fraction_to_save >>
locals == << steps_to_skip, ets_kept, states_kept, cb_states_matrix_km, idx >>

CallNaifIds ==
    /\ pc = "idle"
    /\ \E ns \in NameLists :
        LET r == naif_ids(ns)
        IN  /\ Enter("naif_ids", ns, << >>, << >>, << >>, 0, NoFraction)
            /\ calls' = r.calls
            /\ failed' = failed
            /\ Return(r.ret)

CallMu ==
    /\ pc = "idle"
    /\ \E body \in ObserverIds, signals \in BOOLEAN :
        LET f2 == FailedAfter(failed, signals)
        IN  /\ Enter("mu", << >>, << body >>, << >>, << >>, 0, NoFraction)
            /\ calls' = set_error_handling
                        \o << Call("bodvrd_c", << body >>), Call("failed_c", << f2 >>) >>
            /\ failed' = f2
            /\ Return(mu_result(f2))

CallStateAtInstant ==
    /\ pc = "idle"
    /\ \E body \in BodyIds, cb \in ObserverIds, signals \in BOOLEAN :
        LET r == state_at_instant(body, failed, signals)
        IN  /\ Enter("state_at_instant", << >>, << body >>, << >>, << >>, cb, NoFraction)
            /\ calls' = r.calls
            /\ failed' = r.failed
            /\ Return(r.ret)

CallStatesAtInstant ==
    /\ pc = "idle"
    /\ \E bs \in BodyLists, cb \in ObserverIds :
        \E k \in 1..(Len(bs) + 1) :
            LET r == states_at_instant(bs, failed, k)
            IN  /\ Enter("states_at_instant", << >>, bs, << >>, << >>, cb, NoFraction)
                /\ calls' = r.calls
                /\ failed' = r.failed
                /\ Return(r.ret)

\* write_to_spk, lines 101-123: the fraction check, the error policy, spkopn_c
\* and the check of failed_c after it.
WriteOpen ==
    /\ pc = "idle"
    /\ \E bs \in BodyLists, cb \in ObserverIds, f \in Fractions,
       n \in 0..MaxSamples, t0 \in EpochStarts, p \in StatePatterns,
       signals \in BOOLEAN :
        \E ns \in {n - 1, n, n + 1} \cap 0..MaxSamples :
            LET f2 == FailedAfter(failed, signals)
            IN  /\ Enter("write_to_spk", << >>, bs, StateSeries(ns, p, Len(bs)),
                         Timeline(n, t0), cb, f)
                /\ IF ~FractionAccepted(f)
                   THEN /\ calls' = << >>
                        /\ failed' = failed
                        /\ Return(Err("ErrFraction", << >>))
                   ELSE /\ calls' = set_error_handling
                                    \o << Call("spkopn_c", << >>), Call("failed_c", << f2 >>) >>
                        /\ failed' = f2
                        /\ IF OpenFailed(f2)
                           THEN Return(Err("ErrOpen", << >>))
                           ELSE /\ pc' = "wts_downsample"
                                /\ result' = NoResult
                                /\ errored' = errored

\* lines 125-146: down-sampling and the observing body's state matrix
WriteDownsample ==
    /\ pc = "wts_downsample"
    /\ LET s == StepsToSkip(fraction_to_save)
           e == StepBy(ets, s)
           sts == StepBy(states, s)
           pos == Position(bodies, cb_id)
           cat == concatenate(BodyBlocks(sts, pos.idx))
       IN  /\ steps_to_skip' = s
           /\ ets_kept' = e
           /\ states_kept' = sts
           /\ IF pos.some /\ ~cat.ok
              THEN /\ Panic("concatenate")
                   /\ cb_states_matrix_km' = None
              ELSE /\ pc' = "wts_loop"
                   /\ cb_states_matrix_km' =
                          IF pos.some THEN [some |-> TRUE, m |-> DivScalar(cat.m, 1000)]
                                      ELSE None
                   /\ UNCHANGED << result, errored >>
    /\ UNCHANGED << params, failed, calls, idx >>

\* lines 148-192: one iteration of the loop over bodies
WriteSegment ==
    /\ pc = "wts_loop"
    /\ idx < Len(bodies)
    /\ LET id == bodies[idx + 1]
           body_states == BodyBlocks(states_kept, idx)
           cat == concatenate(body_states)
           km == DivScalar(cat.m, 1000)
           states_matrix_km ==
               IF cb_states_matrix_km.some THEN SubAssign(km, cb_states_matrix_km.m) ELSE km
       IN  IF SkipBody(id, cb_id)
           THEN /\ idx' = idx + 1
                /\ UNCHANGED << pc, result, errored, failed, calls >>
           ELSE IF ~cat.ok
           THEN /\ Panic("concatenate")
                /\ UNCHANGED << idx, failed, calls >>
           ELSE IF ets_kept = << >>
           THEN /\ Panic("index")
                /\ UNCHANGED << idx, failed, calls >>
           ELSE \E signals \in BOOLEAN, crash \in BOOLEAN :
                \* More states than epochs: spkw09_c reads past the epoch
                \* buffer it is given, which may or may not bring the process down.
                /\ crash => Len(body_states) > Len(ets_kept)
                /\ calls' = Append(calls, Call("spkw09_c",
                                spkw09_args(id, cb_id, ets_kept, Len(body_states),
                                            states_matrix_km)))
                /\ IF crash
                   THEN /\ Panic("spkw09_c reads out of bounds")
                        /\ UNCHANGED << idx, failed >>
                   ELSE /\ idx' = idx + 1
                        /\ failed' = FailedAfter(failed, signals)
                        /\ UNCHANGED << pc, result, errored >>
    /\ UNCHANGED << params, steps_to_skip, ets_kept, states_kept, cb_states_matrix_km >>

\* lines 194-196: failed_c after the loop
WriteCheck ==
    /\ pc = "wts_loop"
    /\ idx = Len(bodies)
    /\ calls' = Append(calls, Call("failed_c", << failed >>))
    /\ IF failed
       THEN Return(Err("ErrWrite", << >>))
       ELSE /\ pc' = "wts_close"
            /\ UNCHANGED << result, errored >>
    /\ UNCHANGED << params, locals, failed >>

\* lines 198-208: spkcls_c and failed_c after it
WriteClose ==
    /\ pc = "wts_close"
    /\ \E signals \in BOOLEAN :
        LET f2 == FailedAfter(failed, signals)
        IN  /\ calls' = calls \o << Call("spkcls_c", << >>), Call("failed_c", << f2 >>) >>
            /\ failed' = f2
            /\ Return(IF f2 THEN Err("ErrClose", << >>) ELSE Ok(<< >>))
    /\ UNCHANGED << params, locals >>

\* The caller has the result and drops the call's parameters and locals; the
\* engine's failure flag is process-wide and stays as it is.
CallerContinues ==
    /\ pc = "returned"
    /\ pc' = "idle"
    /\ op' = "none"
    /\ result' = NoResult
    /\ calls' = << >>
    /\ names' = << >>
    /\ bodies' = << >>
    /\ states' = << >>
    /\ ets' = << >>
    /\ cb_id' = 0
    /\ fraction_to_save' = NoFraction
    /\ steps_to_skip' = 0
    /\ ets_kept' = << >>
    /\ states_kept' = << >>
    /\ cb_states_matrix_km' = None
    /\ idx' = 0
    /\ UNCHANGED << failed, errored, errored_at_call >>

Next ==
    \/ CallerContinues
    \/ CallNaifIds
    \/ CallMu
    \/ CallStateAtInstant
    \/ CallStatesAtInstant
    \/ WriteOpen
    \/ WriteDownsample
    \/ WriteSegment
    \/ WriteCheck
    \/ WriteClose

Spec == Init /\ [][Next]_vars

----------------------------------------------------------------------------
(* Vocabulary of the properties *)

CallIdx(name) == { i \in 1..Len(calls) : calls[i].call = name }
Count(name) == Cardinality(CallIdx(name))
IsKernelCall(c) == c.call \in {"spkopn_c", "spkw09_c", "spkcls_c"}

\* The kernel calls of the operation, a segment append with its target and observer.
KernelCalls ==
    LET k == SelectSeq(calls, IsKernelCall)
    IN  [i \in 1..Len(k) |->
            IF k[i].call = "spkw09_c"
            THEN << "spkw09_c", k[i].args.body, k[i].args.center >>
            ELSE << k[i].call >>]

\* The segment appends of the operation, in order.
Segments ==
    LET k == SelectSeq(calls, LAMBDA c : c.call = "spkw09_c")
    IN  [i \in 1..Len(k) |-> k[i].args]

\* The 1-based indices of the entries of bodies that are not the observer, in order.
RECURSIVE TargetIdxFrom(_)
TargetIdxFrom(i) ==
    IF i > Len(bodies) THEN << >>
    ELSE (IF bodies[i] # cb_id THEN << i >> ELSE << >>) \o TargetIdxFrom(i + 1)
TargetIdx == TargetIdxFrom(1)

\* failed_c() reported no failure right after spkopn_c
OpenSucceeded ==
    \E i \in CallIdx("spkopn_c") :
        i < Len(calls) /\ calls[i + 1] = Call("failed_c", << FALSE >>)

\* failed_c() reported a failure right after spkopn_c
OpenReportedFailure ==
    \E i \in CallIdx("spkopn_c") :
        i < Len(calls) /\ calls[i + 1] = Call("failed_c", << TRUE >>)

\* fraction_to_save lies in the half-open interval (0, 1]
InHalfOpenUnit(f) == f.den # 0 /\ 0 < f.num /\ f.num <= f.den

\* ceil(n / s), the number of elements step_by(s) keeps of n
KeptCount(n, s) == IF n = 0 THEN 0 ELSE IF s >= n THEN 1 ELSE (n + s - 1) \div s

InWrite == op = "write_to_spk"
Returned == pc = "returned"
Downsampled == InWrite /\ steps_to_skip > 0

----------------------------------------------------------------------------
(* C1: for every fraction_to_save outside (0, 1], write_to_spk returns the  *)
(* invalid-fraction error and calls no engine routine at all.               *)
C1_InvalidFractionNoCalls ==
    (InWrite /\ ~InHalfOpenUnit(fraction_to_save))
        => /\ calls = << >>
           /\ Returned
           /\ result.tag = "ErrFraction"

(* C2: whenever the kernel open succeeded, the kernel is closed exactly     *)
(* once before write_to_spk returns, on every exit path.                    *)
C2_ClosedOnEveryReturn ==
    (InWrite /\ Returned /\ OpenSucceeded) => Count("spkcls_c") = 1

(* C3: a successful write_to_spk issues one kernel open, then one segment   *)
(* append per entry of bodies that differs from the observer, in body-list  *)
(* order with that body as target and the observer as centre, then one      *)
(* kernel close; no append is issued before the open or after the close.    *)
C3_OpenAppendsClose ==
    InWrite =>
        /\ \A i \in CallIdx("spkw09_c") :
              /\ \E j \in CallIdx("spkopn_c") : j < i
              /\ \A j \in CallIdx("spkcls_c") : i < j
        /\ (Returned /\ result.tag = "Ok") =>
              KernelCalls =
                  << << "spkopn_c" >> >>
                  \o [k \in 1..Len(TargetIdx) |->
                         << "spkw09_c", bodies[TargetIdx[k]], cb_id >>]
                  \o << << "spkcls_c" >> >>

C3_Witness ==
    /\ InWrite /\ Returned /\ result.tag = "Ok"
    /\ Len(bodies) = 3
    /\ bodies[2] = cb_id
    /\ Len(TargetIdx) = 2
    /\ Count("spkw09_c") = 2

(* C4: in every segment append, at every retained instant, each of the 6    *)
(* components of the state buffer is the body's input component divided by  *)
(* 1000, minus the same component divided by 1000 of the block at the first *)
(* position of the observer in bodies; with the observer absent from bodies *)
(* nothing is subtracted.                                                   *)
C4_RelativeStates ==
    Downsampled =>
        \A k \in 1..Len(Segments) :
            LET j == TargetIdx[k]
                buf == Segments[k].states
                nkept == KeptCount(Len(states), steps_to_skip)
                obs == { i \in 1..Len(bodies) : bodies[i] = cb_id }
                first == CHOOSE i \in obs : \A i2 \in obs : i <= i2
            IN  /\ Len(buf) = 6 * nkept
                /\ \A t \in 1..nkept, c \in 1..6 :
                      LET row == states[(t - 1) * steps_to_skip + 1]
                      IN  buf[(t - 1) * 6 + c] =
                              (row[(j - 1) * 6 + c] \div 1000)
                              - (IF obs = {} THEN 0
                                 ELSE row[(first - 1) * 6 + c] \div 1000)

C4_Witness ==
    /\ InWrite /\ Returned /\ result.tag = "Ok"
    /\ Len(bodies) = 3
    /\ bodies[2] = cb_id /\ bodies[3] = cb_id /\ bodies[1] # cb_id
    /\ steps_to_skip = 2
    /\ Len(states) = 5
    /\ Len(Segments) = 1
    /\ Len(Segments[1].states) = 18

(* C5: with stride s = floor(1 / fraction_to_save), the epochs and states   *)
(* write_to_spk uses are the input elements at indices 0, s, 2s, ... below  *)
(* the input length, in order; fraction 1 keeps the input as it is, and 11  *)
(* epochs with fraction 1/2 keep the indices 0, 2, 4, 6, 8, 10.             *)
C5_Downsample ==
    (Downsampled /\ fraction_to_save.num > 0) =>
        LET s == steps_to_skip
            f == fraction_to_save
            Kept(seq) == [k \in 1..KeptCount(Len(seq), s) |-> seq[(k - 1) * s + 1]]
        IN  /\ s * f.num <= f.den
            /\ f.den < (s + 1) * f.num
            /\ ets_kept = Kept(ets)
            /\ states_kept = Kept(states)
            /\ (f.num = f.den) => (s = 1 /\ ets_kept = ets /\ states_kept = states)
            /\ (Len(ets) = 11 /\ f.num = 1 /\ f.den = 2) =>
                  ets_kept = << ets[1], ets[3], ets[5], ets[7], ets[9], ets[11] >>

C5_Witness ==
    /\ InWrite /\ Returned /\ result.tag = "Ok"
    /\ Len(ets) = 11 /\ Len(states) = 11
    /\ fraction_to_save = [num |-> 1, den |-> 2]
    /\ steps_to_skip = 2
    /\ Len(ets_kept) = 6
    /\ Count("spkw09_c") = 2

(* C6: with non-empty inputs of equal length, every segment appended by a   *)
(* call is built from the same down-sampled timeline: t0 is the first       *)
(* retained epoch, which is the first input epoch; tfinal is the last       *)
(* retained epoch, which is the last input epoch exactly when n - 1 is a    *)
(* multiple of the stride; the sample count is the number of retained       *)
(* epochs.                                                                  *)
C6_SharedTimeline ==
    (Downsampled /\ ets # << >> /\ Len(states) = Len(ets)) =>
        \A k \in 1..Len(Segments) :
            LET a == Segments[k]
            IN  /\ a.epochs = ets_kept
                /\ a.first = ets_kept[1]
                /\ a.first = ets[1]
                /\ a.last = ets_kept[Len(ets_kept)]
                /\ (a.last = ets[Len(ets)]) <=> ((Len(ets) - 1) % steps_to_skip = 0)
                /\ a.n = Len(ets_kept)

C6_Witness ==
    /\ InWrite /\ Returned /\ result.tag = "Ok"
    /\ Len(ets) = 4 /\ Len(states) = 4
    /\ steps_to_skip = 2
    /\ Len(Segments) = 2
    /\ Segments[2].last = ets[3]
    /\ Segments[2].n = 2

(* C7: if the engine failure flag is set after the kernel open call,        *)
(* write_to_spk returns the kernel-open error at once: no segment append    *)
(* and no kernel close is issued.                                           *)
C7_OpenFailureReturns ==
    (InWrite /\ OpenReportedFailure) =>
        /\ Returned
        /\ result.tag = "ErrOpen"
        /\ Count("spkw09_c") = 0
        /\ Count("spkcls_c") = 0

C7_Witness ==
    /\ InWrite /\ Returned /\ result.tag = "ErrOpen"
    /\ OpenReportedFailure
    /\ ~errored_at_call
    /\ Len(TargetIdx) = 2
    /\ Len(ets) = 3 /\ Len(states) = 3

(* C8: naif_ids is order-preserving and all-or-nothing: when every name     *)
(* resolves the result is the ids in input order; otherwise it is the       *)
(* not-found error naming the first unresolvable name, with no ids, and no  *)
(* name after that one is looked up.                                        *)
C8_NaifIds ==
    (op = "naif_ids" /\ Returned) =>
        LET unresolved == { i \in 1..Len(names) : ~bodn2c(names[i])[2] }
            k == CHOOSE i \in unresolved : \A i2 \in unresolved : i <= i2
        IN  IF unresolved = {}
            THEN /\ result = Ok([i \in 1..Len(names) |-> bodn2c(names[i])[1]])
                 /\ calls = [i \in 1..Len(names) |-> Call("bodn2c", << names[i] >>)]
            ELSE /\ result = Err("ErrNotFound", names[k])
                 /\ calls = [i \in 1..k |-> Call("bodn2c", << names[i] >>)]

C8_Witness ==
    /\ op = "naif_ids" /\ Returned
    /\ names = << "MOON", "VULCAN", "EARTH" >>
    /\ result = Err("ErrNotFound", "VULCAN")
    /\ Len(calls) = 2

(* C9: for empty bodies, or empty epochs or states, write_to_spk returns an *)
(* error or completes with a kernel that was opened and closed and holds no *)
(* segment; it never aborts and never leaves an opened kernel unclosed.     *)
C9_EmptyInputsHandled ==
    (InWrite /\ (bodies = << >> \/ ets = << >> \/ states = << >>)) =>
        /\ pc # "aborted"
        /\ Returned =>
              \/ result.tag \in ErrorTags /\ (OpenSucceeded => Count("spkcls_c") = 1)
              \/ result.tag = "Ok" /\ KernelCalls = << << "spkopn_c" >>, << "spkcls_c" >> >>

(* C10 as claimed: once one call has returned an engine-sourced error,      *)
(* every later call to mu, state_at_instant, states_at_instant and          *)
(* write_to_spk returns an error.                                           *)
C10_EveryLaterCallFails ==
    (Returned /\ errored_at_call
        /\ op \in {"mu", "state_at_instant", "states_at_instant", "write_to_spk"})
        => result.tag \in ErrorTags

(* C10 as amended: the failure flag is never cleared, so once one call has  *)
(* returned an engine-sourced error, every later call to mu,                *)
(* state_at_instant and write_to_spk, and every later call to               *)
(* states_at_instant with at least one body, returns an error; a retried    *)
(* write_to_spk with an accepted fraction returns the kernel-open error and *)
(* appends nothing.                                                         *)
C10_LaterEngineCallsFail ==
    /\ errored => failed
    /\ (errored_at_call /\ InWrite) => Returned
    /\ (Returned /\ errored_at_call
           /\ op \in {"mu", "state_at_instant", "states_at_instant", "write_to_spk"}
           /\ (op = "states_at_instant" => bodies # << >>))
        => /\ result.tag \in ErrorTags
           /\ (InWrite /\ FractionAccepted(fraction_to_save)) =>
                  (result.tag = "ErrOpen" /\ Count("spkw09_c") = 0)

C10_Witness ==
    /\ InWrite /\ Returned /\ errored_at_call
    /\ fraction_to_save = [num |-> 1, den |-> 1]
    /\ Len(TargetIdx) = 1
    /\ ets # << >> /\ Len(states) = Len(ets)
    /\ result.tag = "ErrOpen"

====
